---------------------------- MODULE Spec2Model ----------------------------
(* The todo REST backend: the Mongoose schema of a Todo document (its        *)
(* defaults, pre-save hook, instance methods and statics) and the express   *)
(* router's handlers.  A handler that awaits one database operation on one  *)
(* document is one action, taken when the operation is applied; a handler   *)
(* that awaits two (findOne then save(), find then countDocuments) is two   *)
(* actions, and a bulk operation is applied one document at a time: other   *)
(* requests run in between.  A handler reads the clock when it builds its   *)
(* operation, at an instant up to the one at which the operation is applied.*)
(*                                                                          *)
(* A document is a function from the names of the fields it holds to their  *)
(* values: an optional field that was never set (completedAt, dueDate,      *)
(* dueTime, description, category) is absent from its DOMAIN, as in the     *)
(* stored BSON document.  A request body and a query string are functions   *)
(* of the same kind.  Instants are integers; one tick is half a day.        *)
(* req is the step last taken: its route and, where an answer is checked    *)
(* against them, the parameters of the request; res is the last answer.    *)
(* inflight holds, for the requests whose handler awaits twice, where each  *)
(* one stands and what it holds between its awaits.                         *)
EXTENDS Integers, Sequences, FiniteSets, TLC

VARIABLES todos, nextId, nextSubId, now, req, res, inflight

vars == <<todos, nextId, nextSubId, now, req, res, inflight>>

(* ------------------------------ bounds ---------------------------------- *)

\* ObjectIds handed out to todos over a run.
MaxTodos == 2
\* ObjectIds handed out to subtasks over a run.
MaxSubtasks == 2
\* Comments a single todo receives.
MaxComments == 1
\* Last instant of the clock.
MaxTime == 1
\* Requests of the handlers that await twice, over a run.
MaxRequests == 3
\* Toggle requests over a run of the single-todo routes.
MaxToggles == 2
\* Todos created over a run of the single-todo routes.
MaxSingle == 1
\* Listing requests over a run.
MaxListings == 1
\* Bulk requests in flight at a time.
MaxBulks == 1

(* ---------------------------- value domains ----------------------------- *)

Users == {"u1", "u2"}

TodoIds == 1..MaxTodos

SubtaskIds == 1..MaxSubtasks

\* The requests of the handlers that await twice, numbered as they arrive.
Requests == 1..MaxRequests

StatusEnum == {"pending", "in-progress", "completed"}

PriorityEnum == {"low", "medium", "high"}

\* Ticks per calendar day: $dateToString '%Y-%m-%d' keeps the day of an instant.
DayLen == 2

\* The fields of todoSchema the model carries (tags and attachments are left out).
SchemaPaths ==
    {"title", "description", "priority", "status", "category", "dueDate",
     "dueTime", "completedAt", "starred", "archived", "order", "user",
     "subtasks", "comments"}

(* ------------------------------ helpers --------------------------------- *)

\* The function f restricted to the keys in S.
Restrict(f, S) == [k \in (DOMAIN f) \cap S |-> f[k]]

\* The function f without the key k ($unset).
Without(f, k) == [x \in (DOMAIN f) \ {k} |-> f[x]]

\* f.k when present, else d.
Get(f, k, d) == IF k \in DOMAIN f THEN f[k] ELSE d

\* The empty object {}.
EmptyObj == [k \in {} |-> 0]

(* ------------------------------ schema ---------------------------------- *)

\* The defaults todoSchema declares.
SchemaDefaults ==
    [priority |-> "medium", status |-> "pending", starred |-> FALSE,
     archived |-> FALSE, order |-> 0, subtasks |-> <<>>, comments |-> <<>>]

\* pre('save'): completedAt = now when status was modified to completed and
\* completedAt is not set.
preSave(doc, statusModified, t) ==
    IF statusModified /\ doc.status = "completed" /\ "completedAt" \notin DOMAIN doc
    THEN [completedAt |-> t] @@ doc
    ELSE doc

\* save() of a modified document: the pre-save hook, then timestamps.
save(doc, statusModified, t) ==
    [updatedAt |-> t] @@ preSave(doc, statusModified, t)

\* toggleStatus with the completed branch leaving completedAt in place.
toggleStatusKeepsCompletedAt(doc, t) ==
    IF doc.status = "completed"
    THEN save([status |-> "pending"] @@ doc, TRUE, t)
    ELSE save([status |-> "completed", completedAt |-> t] @@ doc, TRUE, t)

\* methods.toggleStatus, up to its save().
toggleStatus(doc, t) ==
    IF doc.status = "completed"
    THEN save(Without([status |-> "pending"] @@ doc, "completedAt"), TRUE, t)
    ELSE save([status |-> "completed", completedAt |-> t] @@ doc, TRUE, t)

\* new Todo(data) followed by save(): schema paths of the data over defaults.
newTodo(data, t) ==
    LET doc == Restrict(data, SchemaPaths) @@ SchemaDefaults
                 @@ [createdAt |-> t]
    IN  save(doc, "status" \in DOMAIN data, t)

\* An update document applied to a stored document by findOneAndUpdate or
\* updateMany: $set of the schema paths given, and of updatedAt (timestamps).
applyUpdate(doc, update, t) ==
    [updatedAt |-> t] @@ Restrict(update, SchemaPaths) @@ doc

(* --------------------------- request inputs ----------------------------- *)

Title == <<"a">>

\* POST / bodies.
CreateBodies ==
    {[title |-> Title],
     [title |-> Title, status |-> "completed"],
     EmptyObj}

\* PUT /:id bodies: the validated fields and fields the validators do not list.
UpdateBodies ==
    {[status |-> s] : s \in StatusEnum \cup {"done"}}
    \cup {[archived |-> FALSE]}
    \cup {[user |-> u] : u \in Users}

(* ----------------------------- validators ------------------------------- *)

\* POST /: title notEmpty, priority optional in the enum.
validCreate(body) ==
    /\ "title" \in DOMAIN body
    /\ Len(body.title) >= 1
    /\ ("priority" \in DOMAIN body => body.priority \in PriorityEnum)

\* PUT /:id: status and priority optional in their enums, title not empty.
validUpdate(body) ==
    /\ ("title" \in DOMAIN body => Len(body.title) >= 1)
    /\ ("status" \in DOMAIN body => body.status \in StatusEnum)
    /\ ("priority" \in DOMAIN body => body.priority \in PriorityEnum)

\* validateRequest's answer.
ValidationFailed == [code |-> 400, message |-> "Validation failed"]

NotFound == [code |-> 404, message |-> "Todo not found"]

\* The catch block of every handler.
ServerError(message) ==
    [code |-> 500, message |-> "Server error", error |-> message]

\* findOne({_id: id, user: u}).
Owned(u, id) == id \in DOMAIN todos /\ todos[id].user = u

(* ------------------------------ handlers -------------------------------- *)

Init ==
    /\ todos = EmptyObj
    /\ nextId = 1
    /\ nextSubId = 1
    /\ now = 0
    /\ req = [op |-> "none"]
    /\ res = [code |-> 0]
    /\ inflight = [r \in Requests |-> [pc |-> "idle"]]

\* The instants at which the handler of an operation applied now may have
\* read the clock (new Date(), Date.now, the timestamps of Mongoose).
Built == 0..now

\* router.post('/'): the document is built at instant t, the insert is
\* applied now.
Create(u, body) ==
    /\ nextId <= MaxTodos
    /\ req' = [op |-> "create"]
    /\ IF ~validCreate(body)
       THEN /\ res' = ValidationFailed
            /\ UNCHANGED <<todos, nextId>>
       ELSE \E t \in Built :
                /\ todos' = (nextId :> newTodo([user |-> u] @@ body, t)) @@ todos
                /\ nextId' = nextId + 1
                /\ res' = [code |-> 201]
    /\ UNCHANGED <<nextSubId, now, inflight>>

\* router.put('/:id'): the update, with its updatedAt, is built at instant t;
\* findOneAndUpdate is applied now.
Update(u, id, body) ==
    /\ req' = [op |-> "update"]
    /\ IF ~validUpdate(body)
       THEN /\ res' = ValidationFailed
            /\ UNCHANGED todos
       ELSE IF ~Owned(u, id)
       THEN /\ res' = NotFound
            /\ UNCHANGED todos
       ELSE \E t \in Built :
                /\ todos' = [todos EXCEPT ![id] = applyUpdate(@, body, t)]
                /\ res' = [code |-> 200]
    /\ UNCHANGED <<nextId, nextSubId, now, inflight>>

(* --------------------- handlers that await twice ------------------------ *)

\* The handlers of PATCH /:id/toggle, POST /:id/subtasks, PATCH
\* /:id/subtasks/:subtaskId and POST /:id/comments await findOne and then the
\* save() of the method they call; GET / awaits the find and then the count.
\* Between its two awaits a request holds what the first one gave it, and
\* other requests run.  A request r of Requests stands at idle (not yet
\* arrived), found (the first await has answered, the second operation has
\* not yet been applied) or done (answered).

\* Request r arrives: the requests are numbered in their order of arrival.
Arrives(r) ==
    /\ inflight[r].pc = "idle"
    /\ \A o \in 1..(r - 1) : inflight[o].pc # "idle"

\* Request r, of the handler op, stands between its two awaits.
Awaiting(r, op) == inflight[r].pc = "found" /\ inflight[r].op = op

\* Request r has been answered without a document.
answered(r, code) ==
    [inflight EXCEPT ![r] = [pc |-> "done", code |-> code]]

\* Request r has been answered 200 with its copy local of todo id (data:
\* todo), of which the status is kept.
answeredWith(r, id, local) ==
    [inflight EXCEPT ![r] = [pc |-> "done", code |-> 200,
                             id |-> id, status |-> local.status]]

\* The version key __v of a document: 0 when created, incremented by every
\* $push that save() sends, so the number of subtasks and comments pushed.
version(doc) == Len(doc.subtasks) + Len(doc.comments)

\* The error save() raises when no stored document has the _id any more, for
\* a write that does not touch the version (the toggle of the status).
DocumentNotFound == ServerError("No document found for query")

\* The error save() raises when its write matched no stored document, for a
\* write that touches the version: a $push, which increments it, or the $set
\* of an array element, which carries the version of the copy in its filter.
VersionError == ServerError("No matching document found for id")

\* toggleTarget reading the stored document at the time of the write.
toggleTargetStored(r) == todos[inflight[r].id]

\* The document methods.toggleStatus runs on (this): the copy findOne gave
\* to the request.
toggleTarget(r) == inflight[r].todo

\* The paths save() writes for the copy local of the document read: a path
\* is modified when the value set to it differs from the value read, so a
\* path set to an equal value, or from undefined to undefined, is not written.
modifiedPaths(read, local) ==
    {p \in (DOMAIN read) \cup (DOMAIN local) :
        \/ p \notin DOMAIN read
        \/ p \notin DOMAIN local
        \/ read[p] # local[p]}

\* The paths of a toggled document that save() writes: status, completedAt
\* unless it is as it was read, and updatedAt (timestamps) unless the save
\* runs at the instant the copy read holds as updatedAt.
toggleModified(read, local) ==
    modifiedPaths(read, local) \cap {"status", "completedAt", "updatedAt"}

\* save() of the toggled copy local of the document read: $set of the modified
\* paths local holds and $unset of those it lacks, on the stored document
\* with that _id; every other path of the stored document stays.
saveToggled(stored, read, local) ==
    Restrict(local, toggleModified(read, local))
    @@ Restrict(stored, (DOMAIN stored) \ toggleModified(read, local))

\* router.patch('/:id/toggle') up to the answer of findOne.
ToggleFind(r, u, id) ==
    /\ Arrives(r)
    /\ req' = [op |-> "toggleFind"]
    /\ IF ~Owned(u, id)
       THEN /\ res' = NotFound
            /\ inflight' = answered(r, 404)
       ELSE /\ inflight' = [inflight EXCEPT
                               ![r] = [pc |-> "found", op |-> "toggle", id |-> id,
                                       todo |-> todos[id], at |-> now]]
            /\ UNCHANGED res
    /\ UNCHANGED <<todos, nextId, nextSubId, now>>

\* router.patch('/:id/toggle') from todo.toggleStatus() on: the copy is
\* toggled at an instant t between the answer of findOne and now, its write
\* is applied to the collection, and the request is answered with the copy.
ToggleSave(r) ==
    /\ Awaiting(r, "toggle")
    /\ req' = [op |-> "toggleSave", request |-> r, id |-> inflight[r].id]
    /\ IF inflight[r].id \notin DOMAIN todos
       THEN /\ res' = DocumentNotFound
            /\ inflight' = answered(r, 500)
            /\ UNCHANGED todos
       ELSE \E t \in inflight[r].at..now :
                LET id == inflight[r].id
                    read == toggleTarget(r)
                    local == toggleStatus(read, t)
                IN  /\ todos' = [todos EXCEPT ![id] = saveToggled(@, read, local)]
                    /\ res' = [code |-> 200]
                    /\ inflight' = answeredWith(r, id, local)
    /\ UNCHANGED <<nextId, nextSubId, now>>

\* router.delete('/:id')
Delete(u, id) ==
    /\ req' = [op |-> "delete"]
    /\ IF ~Owned(u, id)
       THEN /\ res' = NotFound
            /\ UNCHANGED todos
       ELSE /\ todos' = Without(todos, id)
            /\ res' = [code |-> 200]
    /\ UNCHANGED <<nextId, nextSubId, now, inflight>>

\* router.patch('/:id/archive'): the update is built at instant t;
\* findOneAndUpdate is applied now.
Archive(u, id) ==
    /\ req' = [op |-> "archive"]
    /\ IF ~Owned(u, id)
       THEN /\ res' = NotFound
            /\ UNCHANGED todos
       ELSE \E t \in Built :
                /\ todos' = [todos EXCEPT
                                ![id] = applyUpdate(@, [archived |-> TRUE], t)]
                /\ res' = [code |-> 200]
    /\ UNCHANGED <<nextId, nextSubId, now, inflight>>

\* bulkStatusUpdate stamping completedAt whatever the status.
bulkStatusUpdateAlwaysStamps(status, t) ==
    [status |-> <<status>>, completedAt |-> <<t>>]

\* An update document as the handler builds it: each key holds <<v>>, or <<>>
\* for the JavaScript value undefined.
bulkStatusUpdate(status, t) ==
    [status |-> <<status>>,
     completedAt |-> IF status = "completed" THEN <<t>> ELSE <<>>]

\* Mongoose's cast of an update document: keys whose value is undefined are
\* removed from the $set before it is sent.
castUpdate(update) ==
    [k \in {x \in DOMAIN update : Len(update[x]) > 0} |-> update[k][1]]

\* bulkMatch without the user condition of the filter.
bulkMatchAnyOwner(u, todoIds) == {id \in DOMAIN todos : id \in todoIds}

\* The filter {_id: {$in: todoIds}, user: u}.
bulkMatch(u, todoIds) == {id \in DOMAIN todos : id \in todoIds /\ todos[id].user = u}

\* The write of Model.updateMany(filter, update) on the documents matched:
\* the collection after it and what it adds to the driver's result; a
\* document counts as modified when the update changed it.
updateMany(matched, update, t) ==
    LET after == [id \in DOMAIN todos |->
                     IF id \in matched THEN applyUpdate(todos[id], update, t)
                     ELSE todos[id]]
    IN  [todos |-> after,
         result |-> [modifiedCount |->
                         Cardinality({id \in matched : after[id] # todos[id]})]]

\* The write of Model.deleteMany(filter) on the documents matched.
deleteMany(matched) ==
    [todos |-> [id \in (DOMAIN todos) \ matched |-> todos[id]],
     result |-> [deletedCount |-> Cardinality(matched)]]

\* { modifiedCount: result.modifiedCount || result.deletedCount } as res.json
\* serialises it: a key whose value is undefined is left out.
bulkData(result) ==
    IF "modifiedCount" \in DOMAIN result /\ result.modifiedCount # 0
    THEN [modifiedCount |-> result.modifiedCount]
    ELSE IF "deletedCount" \in DOMAIN result
    THEN [modifiedCount |-> result.deletedCount]
    ELSE EmptyObj

BulkActions == {"delete", "archive", "update-status"}

\* An element of todoIds that is no ObjectId, as "abc".
BadId == 0

\* The cast of the filter {_id: {$in: todoIds}}: every element is an ObjectId.
castable(todoIds) == BadId \notin todoIds

\* The error of a filter that does not cast, as the catch block answers it.
CastError == ServerError("Cast to ObjectId failed")

\* POST /bulk: action in the enum, todoIds an array of at least one element,
\* status optional in the enum.
validBulk(body) ==
    /\ "action" \in DOMAIN body /\ body.action \in BulkActions
    /\ "todoIds" \in DOMAIN body /\ body.todoIds # {}
    /\ ("status" \in DOMAIN body => body.status \in StatusEnum)

\* The arrays of ObjectIds that POST /bulk bodies carry as todoIds.
BulkIdSets == {{}, {1}, TodoIds}

\* POST /bulk bodies.
BulkBodies ==
    {[action |-> a, todoIds |-> ids] : a \in BulkActions, ids \in BulkIdSets}
    \cup {[action |-> "update-status", todoIds |-> ids, status |-> s] :
              ids \in BulkIdSets \ {{}}, s \in StatusEnum}
    \cup {[action |-> "delete", todoIds |-> {BadId}],
          [action |-> "archive", todoIds |-> {1, BadId}],
          [action |-> "update-status", todoIds |-> {BadId}, status |-> "completed"]}

\* A bulk request arrives in a place r that no bulk request in flight holds.
BulkArrives(r) == inflight[r].pc = "idle"

\* The bulk request r has been answered: its place is free again.
bulkAnswered(r) == [inflight EXCEPT ![r] = [pc |-> "idle"]]

\* The result of an operation that has reached no document yet.
noResult(action) ==
    IF action = "delete" THEN [deletedCount |-> 0] ELSE [modifiedCount |-> 0]

\* The result of an operation after one more document.
addResult(result, more) == [k \in DOMAIN result |-> result[k] + more[k]]

\* The switch in router.post('/bulk') for a valid body that carries what its
\* action needs, as the database applies it to document id: the operation,
\* built at instant t, changes the document when it matches the filter.
bulkOutcome(u, body, id, t) ==
    LET matched == bulkMatch(u, body.todoIds) \cap {id}
    IN  CASE body.action = "delete" -> deleteMany(matched)
          [] body.action = "archive" ->
                updateMany(matched, [archived |-> TRUE], t)
          [] body.action = "update-status" ->
                updateMany(matched, castUpdate(bulkStatusUpdate(body.status, t)), t)

\* router.post('/bulk') up to its await: the validators, the check of status,
\* and the operation built with the clock of this instant.  A filter that
\* does not cast is refused before anything is applied.
BulkBegin(r, u, body) ==
    /\ BulkArrives(r)
    /\ req' = [op |-> "bulkBegin", request |-> r, user |-> u, body |-> body]
    /\ IF ~validBulk(body)
       THEN /\ res' = ValidationFailed
            /\ inflight' = bulkAnswered(r)
       ELSE IF body.action = "update-status" /\ "status" \notin DOMAIN body
       THEN /\ res' = [code |-> 400,
                       message |-> "Status is required for update-status action"]
            /\ inflight' = bulkAnswered(r)
       ELSE IF ~castable(body.todoIds)
       THEN /\ res' = CastError
            /\ inflight' = bulkAnswered(r)
       ELSE /\ inflight' = [inflight EXCEPT
                               ![r] = [pc |-> "found", op |-> "bulk", user |-> u,
                                       body |-> body, at |-> now,
                                       left |-> body.todoIds,
                                       result |-> noResult(body.action)]]
            /\ UNCHANGED res
    /\ UNCHANGED <<todos, nextId, nextSubId, now>>

\* updateMany or deleteMany of request r reaches the identifier id of its
\* $in: the database applies a multi-document write one document at a time.
\* After the last one the handler answers with the result.
BulkApply(r, id) ==
    /\ Awaiting(r, "bulk")
    /\ id \in inflight[r].left
    /\ req' = [op |-> "bulkApply", request |-> r, id |-> id,
               user |-> inflight[r].user, body |-> inflight[r].body,
               last |-> (inflight[r].left = {id})]
    /\ LET out == bulkOutcome(inflight[r].user, inflight[r].body, id,
                              inflight[r].at)
           result == addResult(inflight[r].result, out.result)
           left == inflight[r].left \ {id}
       IN  /\ todos' = out.todos
           /\ IF left = {}
              THEN /\ res' = [code |-> 200, data |-> bulkData(result)]
                   /\ inflight' = bulkAnswered(r)
              ELSE /\ inflight' = [inflight EXCEPT ![r].left = left,
                                                   ![r].result = result]
                   /\ UNCHANGED res
    /\ UNCHANGED <<nextId, nextSubId, now>>

(* ----------------------- subtasks and comments --------------------------- *)

\* POST /:id/subtasks bodies; completed is a field the validators do not list.
SubtaskBodies ==
    {[title |-> Title], [title |-> Title, completed |-> TRUE], EmptyObj}

\* POST /:id/comments bodies.
CommentBodies == {[text |-> Title], EmptyObj}

\* body(field).notEmpty() of the subtask and comment routes.
validText(body, field) == field \in DOMAIN body /\ Len(body[field]) >= 1

\* A subdocument of the subtasks array: its own _id, the schema's defaults.
newSubtask(sid, data, t) ==
    [_id |-> sid] @@ Restrict(data, {"title", "completed"})
        @@ [completed |-> FALSE, createdAt |-> t]

\* A subdocument of the comments array.
newComment(data, t) ==
    Restrict(data, {"text", "user"}) @@ [createdAt |-> t]

\* methods.addSubtask
addSubtask(doc, sub, t) ==
    save([doc EXCEPT !.subtasks = Append(@, sub)], FALSE, t)

\* this.subtasks.id(subtaskId): the positions holding that _id.
subtaskIndex(doc, sid) ==
    {i \in 1..Len(doc.subtasks) : doc.subtasks[i]._id = sid}

\* methods.toggleSubtask when the subtask exists.
toggleSubtask(doc, sid, t) ==
    LET i == CHOOSE j \in subtaskIndex(doc, sid) : TRUE
    IN  save([doc EXCEPT !.subtasks[i].completed = ~@], FALSE, t)

\* methods.addComment
addComment(doc, comment, t) ==
    save([doc EXCEPT !.comments = Append(@, comment)], FALSE, t)

\* The updatedAt a save() at instant t of the copy read leaves in the stored
\* document: t, or what is stored when t is the updatedAt of the copy (the
\* path is then not modified, and the write does not carry it).
savedUpdatedAt(stored, read, t) ==
    IF t # read.updatedAt THEN t ELSE stored.updatedAt

\* save() after this.subtasks.push or this.comments.push on the copy read:
\* $push of the new subdocument onto the stored array, $inc of __v, $set of
\* updatedAt when modified.
savePushed(stored, read, path, sub, t) ==
    [stored EXCEPT ![path] = Append(@, sub),
                   !.updatedAt = savedUpdatedAt(stored, read, t)]

\* save() after subtask.completed = !subtask.completed on the copy read: $set
\* of subtasks.i.completed, i the position of the subtask in the copy, and of
\* updatedAt when modified.
saveSubtaskSet(stored, read, sid, t) ==
    LET i == CHOOSE j \in subtaskIndex(read, sid) : TRUE
    IN  [stored EXCEPT !.subtasks[i].completed = ~read.subtasks[i].completed,
                       !.updatedAt = savedUpdatedAt(stored, read, t)]

\* router.post('/:id/subtasks') up to the answer of findOne.
AddSubtaskFind(r, u, id, body) ==
    /\ Arrives(r)
    /\ req' = [op |-> "addSubtaskFind"]
    /\ IF ~validText(body, "title")
       THEN /\ res' = ValidationFailed
            /\ inflight' = answered(r, 400)
       ELSE IF ~Owned(u, id)
       THEN /\ res' = NotFound
            /\ inflight' = answered(r, 404)
       ELSE /\ inflight' = [inflight EXCEPT
                               ![r] = [pc |-> "found", op |-> "addSubtask",
                                       id |-> id, todo |-> todos[id], at |-> now,
                                       body |-> body]]
            /\ UNCHANGED res
    /\ UNCHANGED <<todos, nextId, nextSubId, now>>

\* router.post('/:id/subtasks') from todo.addSubtask(req.body) on.
AddSubtaskSave(r) ==
    /\ Awaiting(r, "addSubtask")
    /\ nextSubId <= MaxSubtasks
    /\ req' = [op |-> "addSubtaskSave"]
    /\ IF inflight[r].id \notin DOMAIN todos
       THEN /\ res' = VersionError
            /\ inflight' = answered(r, 500)
            /\ UNCHANGED <<todos, nextSubId>>
       ELSE \E t \in inflight[r].at..now :
                LET id == inflight[r].id
                    sub == newSubtask(nextSubId, inflight[r].body, t)
                IN  /\ todos' = [todos EXCEPT
                                    ![id] = savePushed(@, inflight[r].todo,
                                                       "subtasks", sub, t)]
                    /\ nextSubId' = nextSubId + 1
                    /\ res' = [code |-> 200]
                    /\ inflight' = answeredWith(r, id,
                                                addSubtask(inflight[r].todo, sub, t))
    /\ UNCHANGED <<nextId, now>>

\* router.patch('/:id/subtasks/:subtaskId') up to the answer of findOne and,
\* in its continuation, the lookup of toggleSubtask in the copy: a subtask the
\* copy does not hold is answered there and then, before any save().
ToggleSubtaskFind(r, u, id, sid) ==
    /\ Arrives(r)
    /\ req' = [op |-> "toggleSubtaskFind", user |-> u, id |-> id,
               subtaskId |-> sid]
    /\ IF ~Owned(u, id)
       THEN /\ res' = NotFound
            /\ inflight' = answered(r, 404)
       ELSE IF subtaskIndex(todos[id], sid) = {}
       THEN /\ res' = ServerError("Subtask not found")
            /\ inflight' = answered(r, 500)
       ELSE /\ inflight' = [inflight EXCEPT
                               ![r] = [pc |-> "found", op |-> "toggleSubtask",
                                       id |-> id, todo |-> todos[id], at |-> now,
                                       subtaskId |-> sid]]
            /\ UNCHANGED res
    /\ UNCHANGED <<todos, nextId, nextSubId, now>>

\* router.patch('/:id/subtasks/:subtaskId') from the save() of toggleSubtask
\* on.  The write of an array element carries the version of the copy in its
\* filter: it is refused when the todo was deleted, or a subtask or comment
\* was pushed to it, since the copy was read.
ToggleSubtaskSave(r) ==
    /\ Awaiting(r, "toggleSubtask")
    /\ req' = [op |-> "toggleSubtaskSave", request |-> r, id |-> inflight[r].id,
               subtaskId |-> inflight[r].subtaskId]
    /\ LET id == inflight[r].id
           sid == inflight[r].subtaskId
           read == inflight[r].todo
       IN  IF id \notin DOMAIN todos \/ version(todos[id]) # version(read)
           THEN /\ res' = VersionError
                /\ inflight' = answered(r, 500)
                /\ UNCHANGED todos
           ELSE \E t \in inflight[r].at..now :
                    /\ todos' = [todos EXCEPT
                                    ![id] = saveSubtaskSet(@, read, sid, t)]
                    /\ res' = [code |-> 200]
                    /\ inflight' = answeredWith(r, id,
                                                toggleSubtask(read, sid, t))
    /\ UNCHANGED <<nextId, nextSubId, now>>

\* router.post('/:id/comments') up to the answer of findOne.
AddCommentFind(r, u, id, body) ==
    /\ Arrives(r)
    /\ req' = [op |-> "addCommentFind"]
    /\ IF ~validText(body, "text")
       THEN /\ res' = ValidationFailed
            /\ inflight' = answered(r, 400)
       ELSE IF ~Owned(u, id)
       THEN /\ res' = NotFound
            /\ inflight' = answered(r, 404)
       ELSE /\ inflight' = [inflight EXCEPT
                               ![r] = [pc |-> "found", op |-> "addComment",
                                       id |-> id, todo |-> todos[id], at |-> now,
                                       body |-> [user |-> u] @@ body]]
            /\ UNCHANGED res
    /\ UNCHANGED <<todos, nextId, nextSubId, now>>

\* router.post('/:id/comments') from todo.addComment on.
AddCommentSave(r) ==
    /\ Awaiting(r, "addComment")
    /\ inflight[r].id \in DOMAIN todos =>
           Len(todos[inflight[r].id].comments) < MaxComments
    /\ req' = [op |-> "addCommentSave"]
    /\ IF inflight[r].id \notin DOMAIN todos
       THEN /\ res' = VersionError
            /\ inflight' = answered(r, 500)
            /\ UNCHANGED todos
       ELSE \E t \in inflight[r].at..now :
                LET id == inflight[r].id
                    comment == newComment(inflight[r].body, t)
                IN  /\ todos' = [todos EXCEPT
                                    ![id] = savePushed(@, inflight[r].todo,
                                                       "comments", comment, t)]
                    /\ res' = [code |-> 200]
                    /\ inflight' = answeredWith(r, id,
                                                addComment(inflight[r].todo, comment, t))
    /\ UNCHANGED <<nextId, nextSubId, now>>

(* ------------------------------ listing --------------------------------- *)

\* page and limit when the query string gives none.
DefaultPage == 1

DefaultLimit == 20

\* query('limit').isInt({min: 1, max: 100})
MaxLimit == 100

\* A letter under the regular expression's i option.
LowerChar(c) ==
    CASE c = "M" -> "m" [] c = "I" -> "i" [] c = "L" -> "l" [] c = "K" -> "k"
      [] OTHER -> c

Lower(str) == [i \in 1..Len(str) |-> LowerChar(str[i])]

\* {$regex: search, $options: 'i'} for a search of plain letters: search
\* occurs in the field, whatever the case.
regexMatch(str, search) ==
    \E i \in 0..(Len(str) - Len(search)) :
        SubSeq(Lower(str), i + 1, i + Len(search)) = Lower(search)

\* The $or over title and description; a field the document lacks matches nothing.
searchMatch(doc, search) ==
    \/ regexMatch(doc.title, search)
    \/ "description" \in DOMAIN doc /\ regexMatch(doc.description, search)

\* GET / validators.
validList(q) ==
    /\ ("status" \in DOMAIN q => q.status \in StatusEnum \cup {"all"})
    /\ ("priority" \in DOMAIN q => q.priority \in PriorityEnum \cup {"all"})
    /\ ("category" \in DOMAIN q => q.category # "")
    /\ ("starred" \in DOMAIN q => q.starred \in {"all", "true", "false"})
    /\ ("page" \in DOMAIN q => q.page >= 1)
    /\ ("limit" \in DOMAIN q => q.limit >= 1 /\ q.limit <= MaxLimit)

\* A filter of the query string that is given, not empty and not 'all'.
Filtering(q, k) == k \in DOMAIN q /\ q[k] # "" /\ q[k] # "all"

\* The options object the handler builds, undefined values removed.
listOptions(q) ==
    Restrict(q, {"search"})
    @@ Restrict(q, {k \in {"status", "priority", "category"} : Filtering(q, k)})
    @@ (IF Filtering(q, "starred") THEN [starred |-> (q.starred = "true")] ELSE EmptyObj)

\* The filter statics.findByUser builds from its options.
findByUserMatch(doc, userId, options) ==
    /\ doc.user = userId
    /\ doc.archived = FALSE
    /\ ("status" \in DOMAIN options /\ options.status # ""
          => doc.status = options.status)
    /\ ("priority" \in DOMAIN options /\ options.priority # ""
          => doc.priority = options.priority)
    /\ ("category" \in DOMAIN options /\ options.category # ""
          => "category" \in DOMAIN doc /\ doc.category = options.category)
    /\ ("starred" \in DOMAIN options => doc.starred = options.starred)
    /\ ("search" \in DOMAIN options /\ Len(options.search) > 0
          => searchMatch(doc, options.search))

\* The identifiers statics.findByUser selects.
findByUser(userId, options) ==
    {id \in DOMAIN todos : findByUserMatch(todos[id], userId, options)}

\* .sort({order: 1, createdAt: -1}): a precedes b, or ties with it.
sortsBefore(a, b) ==
    \/ a.order < b.order
    \/ a.order = b.order /\ a.createdAt >= b.createdAt

\* The orders in which the sorted cursor may yield the set ids.
sortedResults(ids) ==
    {r \in [1..Cardinality(ids) -> ids] :
        /\ \A i, j \in DOMAIN r : i # j => r[i] # r[j]
        /\ \A i, j \in DOMAIN r : i < j => sortsBefore(todos[r[i]], todos[r[j]])}

\* .limit(limit).skip(skip) of a result.
window(r, skip, limit) ==
    SubSeq(r, skip + 1, IF skip + limit < Len(r) THEN skip + limit ELSE Len(r))

\* The filter given to Todo.countDocuments by the handler.
countMatch(doc, userId, q) ==
    /\ doc.user = userId
    /\ doc.archived = FALSE
    /\ ("search" \in DOMAIN q /\ Len(q.search) > 0 => searchMatch(doc, q.search))

countDocuments(userId, q) ==
    Cardinality({id \in DOMAIN todos : countMatch(todos[id], userId, q)})

\* Math.ceil(total / limit)
ceilDiv(total, limit) == (total + limit - 1) \div limit

\* pagination.current: page as the handler holds it, the string of the query
\* when ?page is given and the number 1 when not.
currentPage(q) == IF "page" \in DOMAIN q THEN ToString(q.page) ELSE DefaultPage

\* router.get('/') up to the answer of the find: the page of todos.
ListFind(r, u, q) ==
    /\ Arrives(r)
    /\ req' = [op |-> "listFind"]
    /\ IF ~validList(q)
       THEN /\ res' = ValidationFailed
            /\ inflight' = answered(r, 400)
       ELSE LET page == Get(q, "page", DefaultPage)
                limit == Get(q, "limit", DefaultLimit)
            IN  \E found \in sortedResults(findByUser(u, listOptions(q))) :
                    /\ inflight' = [inflight EXCEPT
                           ![r] = [pc |-> "found", op |-> "list", user |-> u,
                                   query |-> q,
                                   todos |-> window(found, (page - 1) * limit, limit)]]
                    /\ UNCHANGED res
    /\ UNCHANGED <<todos, nextId, nextSubId, now>>

\* router.get('/') from Todo.countDocuments on: the total is counted in the
\* collection as it is by then, and the answer carries the page found before.
ListCount(r) ==
    /\ Awaiting(r, "list")
    /\ req' = [op |-> "listCount", user |-> inflight[r].user,
               query |-> inflight[r].query]
    /\ LET q == inflight[r].query
           limit == Get(q, "limit", DefaultLimit)
           total == countDocuments(inflight[r].user, q)
       IN  res' = [code |-> 200,
                   todos |-> inflight[r].todos,
                   pagination |-> [current |-> currentPage(q),
                                   pages |-> ceilDiv(total, limit),
                                   total |-> total]]
    /\ inflight' = answered(r, 200)
    /\ UNCHANGED <<todos, nextId, nextSubId, now>>

(* ----------------------------- statistics ------------------------------- *)

\* $dateToString '%Y-%m-%d' of an instant: the start of its day.
datePortion(d) == d - (d % DayLen)

\* $dateFromString of the day, 'T', dueTime and ':00.000Z': <<instant>>, or
\* <<>> when the string does not parse.
dateFromString(day, dueTime) ==
    CASE dueTime = "00:00" -> <<day>>
      [] dueTime = "12:00" -> <<day + 1>>
      [] OTHER -> <<>>

\* The values an aggregation expression compares here: a date, null, or the
\* value of a field path that the document lacks.
BsonDate(t) == [type |-> "date", v |-> t]

BsonNull == [type |-> "null", v |-> 0]

BsonMissing == [type |-> "missing", v |-> 0]

\* '$field' in an aggregation expression.
fieldPath(doc, k) == IF k \in DOMAIN doc THEN BsonDate(doc[k]) ELSE BsonMissing

\* The rank of a type in the BSON comparison order: a missing value sorts
\* before null, null before every date.
bsonRank(x) ==
    CASE x.type = "missing" -> 0
      [] x.type = "null" -> 5
      [] x.type = "date" -> 45

\* $lt: by type rank, then by value.
bsonLt(a, b) ==
    \/ bsonRank(a) < bsonRank(b)
    \/ bsonRank(a) = bsonRank(b) /\ a.v < b.v

\* $ne
bsonNe(a, b) == bsonRank(a) # bsonRank(b) \/ a.v # b.v

\* $addFields combinedDueDateTime: the parsed combination when dueDate and
\* dueTime are both there (dueDate when it does not parse), else '$dueDate'.
combinedDueDateTime(doc) ==
    IF "dueDate" \in DOMAIN doc /\ "dueTime" \in DOMAIN doc
    THEN LET parsed == dateFromString(datePortion(doc.dueDate), doc.dueTime)
         IN  IF parsed = <<>> THEN BsonDate(doc.dueDate) ELSE BsonDate(parsed[1])
    ELSE fieldPath(doc, "dueDate")

\* The condition of the overdue $sum: $ne against null and $lt against now.
overdue(doc, t) ==
    /\ doc.status # "completed"
    /\ bsonNe(combinedDueDateTime(doc), BsonNull)
    /\ bsonLt(combinedDueDateTime(doc), BsonDate(t))

\* The $match stage of getStats.
statsMatch(userId) ==
    {id \in DOMAIN todos : todos[id].user = userId /\ todos[id].archived = FALSE}

\* statics.getStats: the array the aggregation returns, one group or none.
getStats(userId, t) ==
    LET m == statsMatch(userId)
        sum(S) == Cardinality(S)
    IN  IF m = {} THEN <<>>
        ELSE <<[total |-> sum(m),
                completed |-> sum({id \in m : todos[id].status = "completed"}),
                pending |-> sum({id \in m : todos[id].status = "pending"}),
                inProgress |-> sum({id \in m : todos[id].status = "in-progress"}),
                highPriority |-> sum({id \in m : todos[id].priority = "high"}),
                overdue |-> sum({id \in m : overdue(todos[id], t)})]>>

\* stats[0] || {all zero}
ZeroStats ==
    [total |-> 0, completed |-> 0, pending |-> 0, inProgress |-> 0,
     highPriority |-> 0, overdue |-> 0]

\* router.get('/stats/overview'): getStats reads the clock at instant t when
\* it builds the pipeline; the aggregation is applied now.
Stats(u) ==
    /\ \E t \in Built :
           LET stats == getStats(u, t)
           IN  /\ req' = [op |-> "stats", user |-> u, at |-> t]
               /\ res' = [code |-> 200,
                          data |-> IF Len(stats) > 0 THEN stats[1] ELSE ZeroStats]
    /\ UNCHANGED <<todos, nextId, nextSubId, now, inflight>>

\* POST / bodies with the fields the listing filters on and the due fields.
QueryBodies ==
    {[title |-> <<"M", "i", "l", "k">>],
     [title |-> <<"a">>, description |-> <<"m", "i", "l", "k">>,
      status |-> "completed", dueDate |-> 0],
     [title |-> <<"a">>, priority |-> "high", starred |-> TRUE,
      category |-> "home", dueDate |-> 0, dueTime |-> "12:00"],
     [title |-> <<"a">>, status |-> "in-progress", dueDate |-> 0, dueTime |-> "noon"],
     [title |-> <<"a">>, dueDate |-> 1, dueTime |-> "00:00", order |-> 1],
     [title |-> <<"a">>, dueTime |-> "00:00"]}

\* GET / query strings.
ListQueries ==
    {EmptyObj, [status |-> "all"], [status |-> "completed"], [status |-> "pending"],
     [status |-> "done"], [priority |-> "high"], [category |-> "home"],
     [starred |-> "true"], [starred |-> "false"],
     [search |-> <<"m", "i", "l", "k">>], [search |-> <<"I", "L">>],
     [search |-> <<"m", "i", "l", "k">>, status |-> "completed"],
     [limit |-> 1], [limit |-> 1, page |-> 2], [limit |-> 0],
     [limit |-> 1, status |-> "pending"]}

\* The clock read by new Date() and Date.now moves on.
Tick ==
    /\ now < MaxTime
    /\ now' = now + 1
    /\ UNCHANGED <<todos, nextId, nextSubId, req, res, inflight>>

\* router.post('/') while fewer than MaxSingle todos were created.
CreateSingle(u, body) == nextId <= MaxSingle /\ Create(u, body)

\* The single-todo routes, on the first MaxSingle todos created.
Next ==
    \/ \E u \in Users, body \in CreateBodies : CreateSingle(u, body)
    \/ \E u \in Users, id \in TodoIds, body \in UpdateBodies : Update(u, id, body)
    \/ \E r \in 1..MaxToggles, u \in Users, id \in TodoIds : ToggleFind(r, u, id)
    \/ \E r \in 1..MaxToggles : ToggleSave(r)
    \/ \E u \in Users, id \in TodoIds : Delete(u, id)
    \/ \E u \in Users, id \in TodoIds : Archive(u, id)
    \/ Tick

Spec == Init /\ [][Next]_vars

\* The bulk route on todos created by POST /.
NextBulk ==
    \/ \E u \in Users, body \in CreateBodies : Create(u, body)
    \/ \E r \in 1..MaxBulks, u \in Users, body \in BulkBodies : BulkBegin(r, u, body)
    \/ \E r \in 1..MaxBulks, id \in TodoIds : BulkApply(r, id)
    \/ Tick

SpecBulk == Init /\ [][NextBulk]_vars

\* The subtask and comment routes on the first MaxSingle todos created by
\* POST /, which DELETE /:id deletes.
NextSub ==
    \/ \E u \in Users, body \in CreateBodies : CreateSingle(u, body)
    \/ \E r \in Requests, u \in Users, id \in TodoIds, body \in SubtaskBodies :
           AddSubtaskFind(r, u, id, body)
    \/ \E r \in Requests : AddSubtaskSave(r)
    \/ \E r \in Requests, u \in Users, id \in TodoIds, sid \in SubtaskIds :
           ToggleSubtaskFind(r, u, id, sid)
    \/ \E r \in Requests : ToggleSubtaskSave(r)
    \/ \E r \in Requests, u \in Users, id \in TodoIds, body \in CommentBodies :
           AddCommentFind(r, u, id, body)
    \/ \E r \in Requests : AddCommentSave(r)
    \/ \E u \in Users, id \in TodoIds : Delete(u, id)
    \/ Tick

SpecSub == Init /\ [][NextSub]_vars

\* The listing over todos created with filterable fields.
NextQuery ==
    \/ \E u \in Users, body \in QueryBodies : Create(u, body)
    \/ \E u \in Users, id \in TodoIds : Archive(u, id)
    \/ \E r \in 1..MaxListings, u \in Users, q \in ListQueries : ListFind(r, u, q)
    \/ \E r \in 1..MaxListings : ListCount(r)
    \/ Tick

SpecQuery == Init /\ [][NextQuery]_vars

\* The statistics over todos created with due fields.
NextStats ==
    \/ \E u \in Users, body \in QueryBodies : Create(u, body)
    \/ \E u \in Users, id \in TodoIds : Archive(u, id)
    \/ \E u \in Users : Stats(u)
    \/ Tick

SpecStats == Init /\ [][NextStats]_vars

\* Toggle requests running side by side on todos created by POST / and
\* deleted by DELETE /:id.
NextRace ==
    \/ \E u \in Users, body \in CreateBodies : Create(u, body)
    \/ \E r \in Requests, u \in Users, id \in TodoIds : ToggleFind(r, u, id)
    \/ \E r \in Requests : ToggleSave(r)
    \/ \E u \in Users, id \in TodoIds : Delete(u, id)
    \/ Tick

SpecRace == Init /\ [][NextRace]_vars

(* ============================== claims ================================== *)

\* The step is the step op of a handler: every step of a handler records
\* itself in req, and only the clock moves without one.
Handled(op) == req'.op = op /\ now' = now

\* C1: ownership is immutable: no step changes the user field of a todo that
\* stays in the collection.
OwnershipImmutable ==
    [][\A id \in DOMAIN todos :
          id \in DOMAIN todos' => todos'[id].user = todos[id].user]_vars

\* C2: the total that GET /todos reports is the number of the caller's todos
\* matching the filter that selects the page, counted in the same collection,
\* and pages is ceil(total / limit).
ListTotalMatchesFilter ==
    [][Handled("listCount") /\ res'.code = 200 =>
          LET q == req'.query
              n == Cardinality(findByUser(req'.user, listOptions(q)))
          IN  /\ res'.pagination.total = n
              /\ res'.pagination.pages = ceilDiv(n, Get(q, "limit", DefaultLimit))]_vars

\* A todo the listing or the statistics of some user select.
Visible(id) ==
    \E u \in Users : id \in findByUser(u, EmptyObj) \/ id \in statsMatch(u)

\* C3: archiving is one-way: a todo that is archived is not, after any step,
\* back in a listing or in the statistics.
ArchivedStaysHidden ==
    [][\A id \in DOMAIN todos : todos[id].archived => ~Visible(id)']_vars

\* C4: in every reachable state a todo whose status is completed holds a
\* completedAt.
CompletedHasCompletedAt ==
    \A id \in DOMAIN todos :
        todos[id].status = "completed" => "completedAt" \in DOMAIN todos[id]

\* C5, as stated: every toggle takes a stored completed todo to pending
\* without completedAt and a stored pending or in-progress todo to completed
\* with completedAt, so that two toggles of a pending todo leave it pending.
ToggleFlipsStatus ==
    [][Handled("toggleSave") /\ res'.code = 200 =>
          LET id == req'.id
          IN  /\ id \in DOMAIN todos /\ id \in DOMAIN todos'
              /\ IF todos[id].status = "completed"
                 THEN /\ todos'[id].status = "pending"
                      /\ "completedAt" \notin DOMAIN todos'[id]
                 ELSE /\ todos'[id].status = "completed"
                      /\ "completedAt" \in DOMAIN todos'[id]]_vars

\* The status and completedAt of a document, the paths a toggle is about.
toggled(doc) == Restrict(doc, {"status", "completedAt"})

\* C5, amended: a toggle whose todo is stored with the status and completedAt
\* its findOne read (no other write changed them in between) takes completed
\* to pending without completedAt, and pending and in-progress to completed
\* with completedAt an instant of the request; so two toggles one after the
\* other leave a pending todo pending without completedAt.  No toggle whatever
\* stores in-progress.
ToggleFlipsStatusRead ==
    [][Handled("toggleSave") /\ res'.code = 200 =>
          LET r == req'.request
              id == req'.id
          IN  /\ id \in DOMAIN todos /\ id \in DOMAIN todos'
              /\ todos'[id].status \in {"pending", "completed"}
              /\ toggled(todos[id]) = toggled(inflight[r].todo) =>
                    IF todos[id].status = "completed"
                    THEN /\ todos'[id].status = "pending"
                         /\ "completedAt" \notin DOMAIN todos'[id]
                    ELSE /\ todos'[id].status = "completed"
                         /\ "completedAt" \in DOMAIN todos'[id]
                         /\ todos'[id].completedAt \in inflight[r].at..now]_vars

\* C5 witness: two toggle requests, and no other, were issued for a todo
\* created pending; the first was answered with it completed, the second read
\* it after that and was answered with it pending, and the stored todo is
\* pending without completedAt.
ToggledBackToPending ==
    /\ req.op = "toggleSave" /\ res.code = 200
    /\ inflight[1].pc = "done" /\ inflight[1].code = 200
    /\ inflight[2].pc = "done" /\ inflight[2].code = 200
    /\ \A o \in Requests \ {1, 2} : inflight[o].pc = "idle"
    /\ inflight[1].id = req.id /\ inflight[2].id = req.id
    /\ inflight[1].status = "completed"
    /\ inflight[2].status = "pending"
    /\ req.id \in DOMAIN todos
    /\ todos[req.id].status = "pending"
    /\ "completedAt" \notin DOMAIN todos[req.id]

\* A bulk request that passes validation, carries what its action needs, and
\* lists only identifiers that are ObjectIds.
BulkAccepted(body) ==
    /\ validBulk(body)
    /\ body.action = "update-status" => "status" \in DOMAIN body
    /\ castable(body.todoIds)

\* The todos a bulk request of user u addresses: listed in todoIds, owned by u.
BulkTarget(u, body) ==
    {id \in DOMAIN todos : id \in body.todoIds /\ todos[id].user = u}

affected(result) ==
    Get(result, "modifiedCount", 0) + Get(result, "deletedCount", 0)

\* The records a step modified or deleted.
Changed == {id \in DOMAIN todos : id \notin DOMAIN todos' \/ todos'[id] # todos[id]}

\* C7: the modifiedCount of a bulk answer is the number of records the
\* request modified or deleted, zero included: the result counts every record
\* the operation changes, and the answer carries that count.
BulkReportsAffectedCount ==
    [][Handled("bulkApply") =>
          LET r == req'.request
              n == affected(inflight[r].result) + Cardinality(Changed)
          IN  IF req'.last
              THEN /\ "modifiedCount" \in DOMAIN res'.data
                   /\ res'.data.modifiedCount = n
              ELSE affected(inflight'[r].result) = n]_vars

\* C8: bulk update-status to completed stamps completedAt, on every record
\* it addresses, with the time the handler read when it built the update; to
\* pending or in-progress it leaves completedAt as it was, present with its
\* old value or absent.
BulkStatusCompletedAt ==
    [][Handled("bulkApply") /\ req'.body.action = "update-status" =>
          \A id \in BulkTarget(req'.user, req'.body) \cap {req'.id} :
              /\ id \in DOMAIN todos'
              /\ IF req'.body.status = "completed"
                 THEN /\ "completedAt" \in DOMAIN todos'[id]
                      /\ todos'[id].completedAt = inflight[req'.request].at
                 ELSE /\ ("completedAt" \in DOMAIN todos'[id])
                           = ("completedAt" \in DOMAIN todos[id])
                      /\ "completedAt" \in DOMAIN todos[id] =>
                           todos'[id].completedAt = todos[id].completedAt]_vars

\* C8 witness: a bulk update-status answered at instant 1 has just moved a
\* todo of its user to in-progress, and the todo still holds the completedAt
\* of instant 0.
BulkKeptCompletedAt ==
    /\ req.op = "bulkApply" /\ req.last
    /\ res.code = 200 /\ now = 1
    /\ req.body.action = "update-status" /\ req.body.status = "in-progress"
    /\ req.id \in DOMAIN todos
    /\ todos[req.id].user = req.user
    /\ todos[req.id].status = "in-progress"
    /\ "completedAt" \in DOMAIN todos[req.id] /\ todos[req.id].completedAt = 0

\* C9: Toggle Subtask with an identifier that no subtask of the todo holds
\* answers with a not-found error (404) and leaves the collection as it was;
\* with a matching identifier, when it succeeds, it stores the opposite of
\* the completed flag it read for that subtask and changes no other flag.
SubtaskNotFoundIs404 ==
    [][/\ Handled("toggleSubtaskFind") /\ Owned(req'.user, req'.id)
          /\ subtaskIndex(todos[req'.id], req'.subtaskId) = {}
            => res'.code = 404 /\ todos' = todos
       /\ Handled("toggleSubtaskSave") /\ res'.code = 200 =>
            LET id == req'.id
                sid == req'.subtaskId
            IN  /\ Len(todos'[id].subtasks) = Len(todos[id].subtasks)
                /\ \A i \in 1..Len(todos[id].subtasks) :
                      todos'[id].subtasks[i].completed =
                          IF todos[id].subtasks[i]._id = sid
                          THEN ~inflight[req'.request].todo.subtasks[i].completed
                          ELSE todos[id].subtasks[i].completed]_vars

\* C10: the overdue count of the statistics is the number of the user's
\* todos that are not archived, not completed, and whose due date-time exists
\* and is before the current time, the time getStats read; a todo without
\* dueDate is never counted.
OverdueCountsPastDue ==
    [][Handled("stats") =>
          res'.data.overdue =
              Cardinality({id \in DOMAIN todos :
                  /\ todos[id].user = req'.user
                  /\ ~todos[id].archived
                  /\ todos[id].status # "completed"
                  /\ "dueDate" \in DOMAIN todos[id]
                  /\ combinedDueDateTime(todos[id]).v < req'.at})]_vars

\* C11: Toggle is a read-then-write that nothing serializes: the write of a
\* toggle request stores the status and completedAt of the toggle of the
\* document the request read, whatever the collection holds by then.  So when
\* another toggle of the same todo was written since the read, both write the
\* same status, and the todo ends in the state a single toggle of the document
\* read gives, not in the state two toggles one after the other give (the
\* status that was read).
ToggleLostUpdate ==
    [][Handled("toggleSave") /\ res'.code = 200 =>
          LET r == req'.request
              id == inflight[r].id
              read == inflight[r].todo
          IN  /\ id \in DOMAIN todos'
              /\ \E t \in inflight[r].at..now :
                    toggled(todos'[id]) = toggled(toggleStatus(read, t))
              /\ todos'[id].status # read.status
              /\ todos[id].status # read.status =>
                    /\ todos'[id].status = todos[id].status
                    /\ ("completedAt" \in DOMAIN todos'[id])
                           = ("completedAt" \in DOMAIN todos[id])]_vars

\* C11 witness: exactly two toggle requests were issued, both for the same
\* todo, both were answered 200 with the todo in the same status, and the
\* stored todo has that status: the second toggle undid nothing.
TwoTogglesOneFlip ==
    \E r1, r2 \in Requests :
        /\ r1 # r2
        /\ inflight[r1].pc = "done" /\ inflight[r1].code = 200
        /\ inflight[r2].pc = "done" /\ inflight[r2].code = 200
        /\ inflight[r1].id = inflight[r2].id
        /\ inflight[r1].status = inflight[r2].status
        /\ \A o \in Requests \ {r1, r2} : inflight[o].pc = "idle"
        /\ inflight[r1].id \in DOMAIN todos
        /\ todos[inflight[r1].id].status = inflight[r1].status

=============================================================================
